---- MODULE Spec2Model ----
(***************************************************************************)
(* Model of Source/Scene/ModelExperimental/ModelExperimentalStatistics.js: *)
(* the per-model rendering statistics (immediate counters, deduplication   *)
(* sets, and the lazily summed batch-texture map).                         *)
(*                                                                         *)
(* Every method is a pure operator from the instance (`this`) and its      *)
(* arguments to the instance after the call and what the call threw; the   *)
(* actions apply the operators to the instance `stats`.                    *)
(***************************************************************************)
EXTENDS Integers, Sequences, FiniteSets, TLC

\* ------------------------------------------------------------------ bounds
\* Largest byte size a buffer, texture or batch texture reports.
MaxSize == 1
\* Cap on the amount the owning pipeline accumulates into the three
\* directly written counters within one generation.
MaxCount == 1
\* Cap on the registrations recorded in one generation's call log.
MaxCalls == 3

Sizes == 0..MaxSize

\* Identity values (Buffer._id, Texture._id, BatchTexture._id). Buffers and
\* textures draw from the same values: their sets are separate objects.
Ids == {"id1", "id2"}

\* Batch texture objects on the heap. "o1" and "o1b" are two distinct
\* objects that carry the same _id.
BatchTextureRefs == {"o1", "o1b", "o2"}
BatchTextureId(ref) == IF ref = "o2" THEN "id2" ELSE "id1"

\* ------------------------------------------------------------ JS values
Undefined == [type |-> "undefined"]
NumberValue == [type |-> "number"]
Booleans == {[type |-> "boolean", value |-> v] : v \in BOOLEAN}
\* Buffer and Texture objects as a call sees them: the _id and the
\* sizeInBytes the object has at the time of the call.
Buffers(ids) == {[type |-> "object", _id |-> i, sizeInBytes |-> n] : i \in ids, n \in Sizes}
Textures(ids) == {[type |-> "object", _id |-> i, sizeInBytes |-> n] : i \in ids, n \in Sizes}
\* A BatchTexture is passed by reference: its byteLength lives on the heap.
BatchTextures == {[type |-> "object", ref |-> r] : r \in BatchTextureRefs}

\* Arguments a caller can pass, well-formed or not.
ObjectArgs(objects) == objects \cup {Undefined, NumberValue}
FlagArgs == Booleans \cup {Undefined}

\* The whole-object specification Spec registers one buffer identity and one
\* texture identity (the same value) next to all batch textures; SpecGeometry
\* registers every buffer and texture identity.
SceneIds == {"id1"}

typeof(value) == value.type

VARIABLES
  stats,            \* the ModelExperimentalStatistics instance
  twin,             \* a second instance: constructed (new) at the moment stats is
                    \* cleared, and given every later call stats is given
  byteLength,       \* heap: each batch texture's current byteLength
  last,             \* the last step: which kind, and what it threw or returned
  firstRegistered,  \* history: _id -> the batch texture first passed to
                    \* addBatchTexture with that _id since the last clear()
  log,              \* history: the registration calls of this generation
  dropped           \* history: the batch textures the last clear() removed
                    \* from the map (kept by SpecBatch only)

vars == <<stats, twin, byteLength, last, firstRegistered, log, dropped>>

\* ------------------------------------------------------ Core/Check.js
\* Check.typeOf.object / Check.typeOf.bool: TRUE when the check passes,
\* FALSE when it throws (the InvalidArgument error).
Check_typeOf_object(test) == typeof(test) = "object"
Check_typeOf_bool(test) == typeof(test) = "boolean"

\* ------------------------------------------- Core/AssociativeArray.js
NewAssociativeArray == [_hash |-> <<>>, _array |-> <<>>]

AssociativeArray_length(a) == Len(a._array)
AssociativeArray_values(a) == a._array
AssociativeArray_contains(a, key) == key \in DOMAIN a._hash

RemoveFirst(seq, value) ==
  LET at == CHOOSE i \in 1..Len(seq) :
              seq[i] = value /\ \A j \in 1..(i - 1) : seq[j] # value
  IN SubSeq(seq, 1, at - 1) \o SubSeq(seq, at + 1, Len(seq))

AssociativeArray_remove(a, key) ==
  IF key \in DOMAIN a._hash
  THEN [_hash |-> [k \in DOMAIN a._hash \ {key} |-> a._hash[k]],
        _array |-> RemoveFirst(a._array, a._hash[key])]
  ELSE a

AssociativeArray_set(a, key, value) ==
  IF key \in DOMAIN a._hash /\ a._hash[key] = value
  THEN a
  ELSE LET b == AssociativeArray_remove(a, key)
       IN [_hash |-> [k \in DOMAIN b._hash \cup {key} |->
                        IF k = key THEN value ELSE b._hash[k]],
           _array |-> Append(b._array, value)]

AssociativeArray_removeAll(a) ==
  IF Len(a._array) > 0 THEN NewAssociativeArray ELSE a

\* --------------------------------------------- ModelExperimentalStatistics
\* How a call ends.
Return(this) == [this |-> this, thrown |-> "none"]
Throw(this) == [this |-> this, thrown |-> "InvalidArgument"]

\* function ModelExperimentalStatistics()
ModelExperimentalStatistics ==
  [pointsLength |-> 0,
   trianglesLength |-> 0,
   geometryByteLength |-> 0,
   texturesByteLength |-> 0,
   propertyTablesByteLength |-> 0,
   _bufferIdSet |-> {},
   _textureIdSet |-> {},
   _batchTextureIdMap |-> NewAssociativeArray]

\* The for loop of the getter, from index i with `memory` accumulated so far.
RECURSIVE SumValues(_, _, _, _, _)
SumValues(values, length, i, memory, heap) ==
  IF i < length
  THEN SumValues(values, length, i + 1, memory + heap[values[i + 1]], heap)
  ELSE memory

\* Faulty variants of the getter: (a) the loop starts at 1, (b) the loop
\* consumes the values it sums (values.pop()), emptying the map.
batchTexturesByteLength_skipsFirst(this, heap) ==
  LET length == AssociativeArray_length(this._batchTextureIdMap)
      values == AssociativeArray_values(this._batchTextureIdMap)
  IN [value |-> SumValues(values, length, 1, 0, heap), this |-> this]

batchTexturesByteLength_consumesValues(this, heap) ==
  LET length == AssociativeArray_length(this._batchTextureIdMap)
      values == AssociativeArray_values(this._batchTextureIdMap)
  IN [value |-> SumValues(values, length, 0, 0, heap),
      this |-> [this EXCEPT !._batchTextureIdMap._array = <<>>]]

\* Faulty variant of the getter: (c) the loop assigns (memory = ...) where
\* it should add, so the value is the size of the last entry.
batchTexturesByteLength_assigns(this, heap) ==
  LET length == AssociativeArray_length(this._batchTextureIdMap)
      values == AssociativeArray_values(this._batchTextureIdMap)
  IN [value |-> IF length = 0 THEN 0 ELSE heap[values[length]], this |-> this]

\* get batchTexturesByteLength: the value returned and the instance after.
batchTexturesByteLength(this, heap) ==
  LET length == AssociativeArray_length(this._batchTextureIdMap)
      values == AssociativeArray_values(this._batchTextureIdMap)
  IN [value |-> SumValues(values, length, 0, 0, heap), this |-> this]

\* Faulty variants of clear: (a) _batchTextureIdMap.removeAll() is missing,
\* (b) _bufferIdSet is not replaced.
clear_keepsBatchTextures(this) ==
  Return([this EXCEPT
            !.pointsLength = 0,
            !.trianglesLength = 0,
            !.geometryByteLength = 0,
            !.texturesByteLength = 0,
            !.propertyTablesByteLength = 0,
            !._bufferIdSet = {},
            !._textureIdSet = {}])

clear_keepsBufferIdSet(this) ==
  Return([this EXCEPT
            !.pointsLength = 0,
            !.trianglesLength = 0,
            !.geometryByteLength = 0,
            !.texturesByteLength = 0,
            !.propertyTablesByteLength = 0,
            !._textureIdSet = {},
            !._batchTextureIdMap = AssociativeArray_removeAll(@)])

clear(this) ==
  Return([this EXCEPT
            !.pointsLength = 0,
            !.trianglesLength = 0,
            !.geometryByteLength = 0,
            !.texturesByteLength = 0,
            !.propertyTablesByteLength = 0,
            !._bufferIdSet = {},
            !._textureIdSet = {},
            !._batchTextureIdMap = AssociativeArray_removeAll(@)])

\* Faulty variants of addBuffer, used to show that the claims below depend on
\* the code: (a) the hasOwnProperty test is missing, (b) the copies are
\* swapped, (c) the total is assigned instead of added to, (d) the argument
\* checks come after the update.
addBuffer_countsEveryCall(this, buffer, hasCpuCopy) ==
  IF ~Check_typeOf_object(buffer) THEN Throw(this)
  ELSE IF ~Check_typeOf_bool(hasCpuCopy) THEN Throw(this)
  ELSE
    LET copies == IF hasCpuCopy.value THEN 2 ELSE 1
    IN Return([this EXCEPT
                 !.geometryByteLength = @ + buffer.sizeInBytes * copies,
                 !._bufferIdSet = @ \cup {buffer._id}])

addBuffer_swappedCopies(this, buffer, hasCpuCopy) ==
  IF ~Check_typeOf_object(buffer) THEN Throw(this)
  ELSE IF ~Check_typeOf_bool(hasCpuCopy) THEN Throw(this)
  ELSE
    LET copies == IF hasCpuCopy.value THEN 1 ELSE 2
        counted ==
          IF buffer._id \notin this._bufferIdSet
          THEN [this EXCEPT !.geometryByteLength = @ + buffer.sizeInBytes * copies]
          ELSE this
    IN Return([counted EXCEPT !._bufferIdSet = @ \cup {buffer._id}])

addBuffer_assigns(this, buffer, hasCpuCopy) ==
  IF ~Check_typeOf_object(buffer) THEN Throw(this)
  ELSE IF ~Check_typeOf_bool(hasCpuCopy) THEN Throw(this)
  ELSE
    LET copies == IF hasCpuCopy.value THEN 2 ELSE 1
        counted ==
          IF buffer._id \notin this._bufferIdSet
          THEN [this EXCEPT !.geometryByteLength = buffer.sizeInBytes * copies]
          ELSE this
    IN Return([counted EXCEPT !._bufferIdSet = @ \cup {buffer._id}])

addBuffer_checksLate(this, buffer, hasCpuCopy) ==
  IF ~Check_typeOf_object(buffer) THEN Throw(this)
  ELSE
    LET copies == IF typeof(hasCpuCopy) = "boolean" /\ hasCpuCopy.value THEN 2 ELSE 1
        counted ==
          IF buffer._id \notin this._bufferIdSet
          THEN [this EXCEPT !.geometryByteLength = @ + buffer.sizeInBytes * copies]
          ELSE this
        after == [counted EXCEPT !._bufferIdSet = @ \cup {buffer._id}]
    IN IF ~Check_typeOf_bool(hasCpuCopy) THEN Throw(after) ELSE Return(after)

\* Faulty variant of addBuffer: a buffer of size 0 is not remembered, so a
\* later call with the same _id and a larger size is counted.
addBuffer_forgetsEmpty(this, buffer, hasCpuCopy) ==
  IF ~Check_typeOf_object(buffer) THEN Throw(this)
  ELSE IF ~Check_typeOf_bool(hasCpuCopy) THEN Throw(this)
  ELSE
    LET copies == IF hasCpuCopy.value THEN 2 ELSE 1
        counted ==
          IF buffer._id \notin this._bufferIdSet
          THEN [this EXCEPT !.geometryByteLength = @ + buffer.sizeInBytes * copies]
          ELSE this
    IN IF buffer.sizeInBytes = 0 /\ buffer._id \notin this._bufferIdSet
       THEN Return(this)
       ELSE Return([counted EXCEPT !._bufferIdSet = @ \cup {buffer._id}])

addBuffer(this, buffer, hasCpuCopy) ==
  IF ~Check_typeOf_object(buffer) THEN Throw(this)
  ELSE IF ~Check_typeOf_bool(hasCpuCopy) THEN Throw(this)
  ELSE
    LET copies == IF hasCpuCopy.value THEN 2 ELSE 1
        counted ==
          IF buffer._id \notin this._bufferIdSet
          THEN [this EXCEPT !.geometryByteLength = @ + buffer.sizeInBytes * copies]
          ELSE this
    IN Return([counted EXCEPT !._bufferIdSet = @ \cup {buffer._id}])

\* Faulty variant of addTexture: the hasOwnProperty test is missing.
addTexture_countsEveryCall(this, texture) ==
  IF ~Check_typeOf_object(texture) THEN Throw(this)
  ELSE Return([this EXCEPT
                 !.texturesByteLength = @ + texture.sizeInBytes,
                 !._textureIdSet = @ \cup {texture._id}])

\* Faulty variant of addTexture: the hasOwnProperty test looks in
\* _bufferIdSet.
addTexture_testsBufferIdSet(this, texture) ==
  IF ~Check_typeOf_object(texture) THEN Throw(this)
  ELSE
    LET counted ==
          IF texture._id \notin this._bufferIdSet
          THEN [this EXCEPT !.texturesByteLength = @ + texture.sizeInBytes]
          ELSE this
    IN Return([counted EXCEPT !._textureIdSet = @ \cup {texture._id}])

addTexture(this, texture) ==
  IF ~Check_typeOf_object(texture) THEN Throw(this)
  ELSE
    LET counted ==
          IF texture._id \notin this._textureIdSet
          THEN [this EXCEPT !.texturesByteLength = @ + texture.sizeInBytes]
          ELSE this
    IN Return([counted EXCEPT !._textureIdSet = @ \cup {texture._id}])

\* Faulty variant of addBatchTexture: the contains test is missing.
addBatchTexture_alwaysSets(this, batchTexture) ==
  IF ~Check_typeOf_object(batchTexture) THEN Throw(this)
  ELSE Return([this EXCEPT !._batchTextureIdMap =
                 AssociativeArray_set(@, BatchTextureId(batchTexture.ref), batchTexture.ref)])

addBatchTexture(this, batchTexture) ==
  IF ~Check_typeOf_object(batchTexture) THEN Throw(this)
  ELSE
    IF ~AssociativeArray_contains(this._batchTextureIdMap, BatchTextureId(batchTexture.ref))
    THEN Return([this EXCEPT !._batchTextureIdMap =
                   AssociativeArray_set(@, BatchTextureId(batchTexture.ref), batchTexture.ref)])
    ELSE Return(this)

\* ------------------------------------------------------------------ state
\* No twin exists before the first clear().
NoInstance == [none |-> TRUE]

Init ==
  /\ stats = ModelExperimentalStatistics
  /\ twin = NoInstance
  /\ byteLength = [r \in BatchTextureRefs |-> 0]
  /\ last = [step |-> "new"]
  /\ firstRegistered = <<>>
  /\ log = <<>>
  /\ dropped = {}

\* What a registration call leaves in `last`.
Outcome(result) ==
  IF result.thrown = "none"
  THEN [step |-> "call"]
  ELSE [step |-> "thrown", error |-> result.thrown]

\* ---------------------------------------------------------------- actions
DoClear ==
  /\ stats' = clear(stats).this
  /\ twin' = ModelExperimentalStatistics
  /\ last' = IF clear(stats).thrown = "none"
             THEN [step |-> "clear"]
             ELSE [step |-> "thrown", error |-> clear(stats).thrown]
  /\ firstRegistered' = <<>>
  /\ UNCHANGED byteLength

Clear == DoClear /\ UNCHANGED <<log, dropped>>

DoAddBuffer(buffer, hasCpuCopy) ==
  /\ stats' = addBuffer(stats, buffer, hasCpuCopy).this
  /\ twin' = IF twin = NoInstance THEN twin ELSE addBuffer(twin, buffer, hasCpuCopy).this
  /\ last' = Outcome(addBuffer(stats, buffer, hasCpuCopy))
  /\ UNCHANGED <<byteLength, firstRegistered>>

CallAddBuffer(buffer, hasCpuCopy) ==
  DoAddBuffer(buffer, hasCpuCopy) /\ UNCHANGED <<log, dropped>>

AddBuffer ==
  \E buffer \in ObjectArgs(Buffers(SceneIds)), hasCpuCopy \in FlagArgs :
    CallAddBuffer(buffer, hasCpuCopy)

DoAddTexture(texture) ==
  /\ stats' = addTexture(stats, texture).this
  /\ twin' = IF twin = NoInstance THEN twin ELSE addTexture(twin, texture).this
  /\ last' = Outcome(addTexture(stats, texture))
  /\ UNCHANGED <<byteLength, firstRegistered>>

CallAddTexture(texture) == DoAddTexture(texture) /\ UNCHANGED <<log, dropped>>

AddTexture == \E texture \in ObjectArgs(Textures(SceneIds)) : CallAddTexture(texture)

\* firstRegistered after addBatchTexture(batchTexture) was called.
Remember(first, batchTexture) ==
  IF typeof(batchTexture) = "object" /\ BatchTextureId(batchTexture.ref) \notin DOMAIN first
  THEN [k \in DOMAIN first \cup {BatchTextureId(batchTexture.ref)} |->
          IF k \in DOMAIN first THEN first[k] ELSE batchTexture.ref]
  ELSE first

DoAddBatchTexture(batchTexture) ==
  /\ stats' = addBatchTexture(stats, batchTexture).this
  /\ twin' = IF twin = NoInstance THEN twin ELSE addBatchTexture(twin, batchTexture).this
  /\ last' = Outcome(addBatchTexture(stats, batchTexture))
  /\ firstRegistered' = Remember(firstRegistered, batchTexture)
  /\ UNCHANGED byteLength

CallAddBatchTexture(batchTexture) ==
  DoAddBatchTexture(batchTexture) /\ UNCHANGED <<log, dropped>>

AddBatchTexture ==
  \E batchTexture \in ObjectArgs(BatchTextures) : CallAddBatchTexture(batchTexture)

\* A reader evaluates statistics.batchTexturesByteLength.
ReadBatchTexturesByteLength ==
  /\ stats' = batchTexturesByteLength(stats, byteLength).this
  /\ twin' = IF twin = NoInstance THEN twin
             ELSE batchTexturesByteLength(twin, byteLength).this
  /\ last' = [step |-> "read", value |-> batchTexturesByteLength(stats, byteLength).value]
  /\ UNCHANGED <<byteLength, firstRegistered, log, dropped>>

\* A batch texture's textures finish loading (or are released): its
\* byteLength changes, whether or not it is registered anywhere.
SetByteLength ==
  \E r \in BatchTextureRefs, n \in Sizes :
    /\ byteLength[r] # n
    /\ byteLength' = [byteLength EXCEPT ![r] = n]
    /\ last' = [step |-> "external"]
    /\ UNCHANGED <<stats, twin, firstRegistered, log, dropped>>

\* The owning pipeline adds to one of the three counters it writes directly
\* (statistics.pointsLength += n, and so on).
Accumulated(this) ==
  this.pointsLength + this.trianglesLength + this.propertyTablesByteLength

accumulate(this, field, n) == [this EXCEPT ![field] = @ + n]

PipelineAccumulate ==
  \E field \in {"pointsLength", "trianglesLength", "propertyTablesByteLength"},
     n \in 1..MaxCount :
    /\ Accumulated(stats) + n <= MaxCount
    /\ stats' = accumulate(stats, field, n)
    /\ twin' = IF twin = NoInstance THEN twin ELSE accumulate(twin, field, n)
    /\ last' = [step |-> "external"]
    /\ UNCHANGED <<byteLength, firstRegistered, log, dropped>>

Next ==
  \/ Clear
  \/ AddBuffer
  \/ AddTexture
  \/ AddBatchTexture
  \/ ReadBatchTexturesByteLength
  \/ SetByteLength
  \/ PipelineAccumulate

Spec == Init /\ [][Next]_vars

\* ----------------------------------------- buffers and textures, logged
\* The geometry side alone, over every buffer and texture identity, with the
\* generation's registrations kept in `log` in call order.
LoggedClear == DoClear /\ log' = <<>> /\ UNCHANGED dropped

LoggedAddBuffer ==
  \E buffer \in Buffers(Ids), hasCpuCopy \in Booleans :
    /\ Len(log) < MaxCalls
    /\ DoAddBuffer(buffer, hasCpuCopy)
    /\ log' = Append(log, [op |-> "addBuffer", object |-> buffer, hasCpuCopy |-> hasCpuCopy])
    /\ UNCHANGED dropped

LoggedAddTexture ==
  \E texture \in Textures(Ids) :
    /\ Len(log) < MaxCalls
    /\ DoAddTexture(texture)
    /\ log' = Append(log, [op |-> "addTexture", object |-> texture, hasCpuCopy |-> Undefined])
    /\ UNCHANGED dropped

NextGeometry ==
  \/ LoggedClear
  \/ LoggedAddBuffer
  \/ LoggedAddTexture

SpecGeometry == Init /\ [][NextGeometry]_vars

\* --------------------------------------------- batch textures, logged
\* The batch-texture side alone: the generation's addBatchTexture calls are
\* kept in `log` in call order, and clear() notes what it dropped.
BatchClear ==
  /\ DoClear
  /\ log' = <<>>
  /\ dropped' = {firstRegistered[id] : id \in DOMAIN firstRegistered}

LoggedAddBatchTexture ==
  \E batchTexture \in BatchTextures :
    /\ Len(log) < MaxCalls
    /\ DoAddBatchTexture(batchTexture)
    /\ log' = Append(log, batchTexture)
    /\ UNCHANGED dropped

NextBatch ==
  \/ BatchClear
  \/ LoggedAddBatchTexture
  \/ SetByteLength
  \/ ReadBatchTexturesByteLength

SpecBatch == Init /\ [][NextBatch]_vars

\* ------------------------------------------------ registrations only
\* clear() and the three registration methods with well-formed arguments,
\* over every buffer, texture and batch-texture identity; nothing else
\* touches the instance and no size changes.
RegisterBuffer ==
  \E buffer \in Buffers(Ids), hasCpuCopy \in Booleans : CallAddBuffer(buffer, hasCpuCopy)

RegisterTexture == \E texture \in Textures(Ids) : CallAddTexture(texture)

RegisterBatchTexture ==
  \E batchTexture \in BatchTextures : CallAddBatchTexture(batchTexture)

NextRegistrations ==
  \/ Clear
  \/ RegisterBuffer
  \/ RegisterTexture
  \/ RegisterBatchTexture

SpecRegistrations == Init /\ [][NextRegistrations]_vars

\* ================================================================ claims
\* ----------------------------------------------------- replaying a log
\* One logged registration applied to an instance.
Apply(this, call) ==
  IF call.op = "addBuffer"
  THEN addBuffer(this, call.object, call.hasCpuCopy).this
  ELSE addTexture(this, call.object).this

\* A sequence of logged registrations applied, in order, to an instance.
RECURSIVE Replay(_, _)
Replay(this, calls) ==
  IF calls = <<>> THEN this ELSE Replay(Apply(this, Head(calls)), Tail(calls))

\* What a logged registration registers: the kind of resource and its _id.
Key(call) == <<call.op, call.object._id>>

\* The calls of a sequence that are the first to register their identity.
RECURSIVE FirstCalls(_, _)
FirstCalls(calls, seen) ==
  IF calls = <<>> THEN <<>>
  ELSE IF Key(Head(calls)) \in seen THEN FirstCalls(Tail(calls), seen)
  ELSE <<Head(calls)>> \o FirstCalls(Tail(calls), seen \cup {Key(Head(calls))})

\* The step appended `call` to the log: that registration was just made.
Logged(call) == log' = Append(log, call)

LoggedBufferCalls ==
  {[op |-> "addBuffer", object |-> b, hasCpuCopy |-> c] : b \in Buffers(Ids), c \in Booleans}
LoggedTextureCalls ==
  {[op |-> "addTexture", object |-> t, hasCpuCopy |-> Undefined] : t \in Textures(Ids)}

\* C1: within a generation, geometryByteLength after any sequence of
\* addBuffer calls is what it is after only the first call of each buffer
\* identity (registering an identity N >= 1 times counts it as once), and an
\* addBuffer call with an identity already in _bufferIdSet leaves
\* geometryByteLength as it was, whatever size or hasCpuCopy it carries.
C1_RepeatedBufferCountsOnce ==
  /\ [](stats.geometryByteLength
          = Replay(ModelExperimentalStatistics, FirstCalls(log, {})).geometryByteLength)
  /\ [][\A call \in LoggedBufferCalls :
          (Logged(call) /\ call.object._id \in stats._bufferIdSet)
            => stats'.geometryByteLength = stats.geometryByteLength]_vars

\* C1 witness: an identity registered twice, the second time with another
\* size and another hasCpuCopy, and counted with the first call's values.
C1_Witness ==
  /\ Len(log) = 2
  /\ log[1] = [op |-> "addBuffer",
               object |-> [type |-> "object", _id |-> "id1", sizeInBytes |-> 1],
               hasCpuCopy |-> [type |-> "boolean", value |-> TRUE]]
  /\ log[2] = [op |-> "addBuffer",
               object |-> [type |-> "object", _id |-> "id1", sizeInBytes |-> 0],
               hasCpuCopy |-> [type |-> "boolean", value |-> FALSE]]
  /\ stats.geometryByteLength = 2

\* C2: addBuffer of a buffer whose _id is not in _bufferIdSet adds exactly
\* 2 * sizeInBytes to geometryByteLength when hasCpuCopy is true and exactly
\* sizeInBytes when it is false, and the _id is in _bufferIdSet afterwards.
C2_NewBufferAddsSizeTimesCopies ==
  [][\A call \in LoggedBufferCalls :
       (Logged(call) /\ call.object._id \notin stats._bufferIdSet)
         => /\ stats'.geometryByteLength =
                 stats.geometryByteLength
                   + (IF call.hasCpuCopy.value THEN 2 ELSE 1) * call.object.sizeInBytes
            /\ call.object._id \in stats'._bufferIdSet]_vars

\* C2 witness: one buffer counted twice over (CPU copy), another once.
C2_Witness ==
  /\ Len(log) = 2
  /\ log[1].op = "addBuffer" /\ log[1].object._id = "id1"
  /\ log[1].object.sizeInBytes = 1 /\ log[1].hasCpuCopy.value
  /\ log[2].op = "addBuffer" /\ log[2].object._id = "id2"
  /\ log[2].object.sizeInBytes = 1 /\ ~log[2].hasCpuCopy.value
  /\ stats.geometryByteLength = 3
  /\ stats._bufferIdSet = {"id1", "id2"}

\* C3: within a generation every texture identity contributes its size to
\* texturesByteLength exactly once: the first addTexture of an identity adds
\* texture.sizeInBytes and puts the identity in _textureIdSet, and every
\* later addTexture of that identity leaves texturesByteLength as it was.
C3_TextureCountsOnce ==
  /\ [](stats.texturesByteLength
          = Replay(ModelExperimentalStatistics, FirstCalls(log, {})).texturesByteLength)
  /\ [][\A call \in LoggedTextureCalls :
          Logged(call)
            => /\ stats'.texturesByteLength =
                    IF call.object._id \in stats._textureIdSet
                    THEN stats.texturesByteLength
                    ELSE stats.texturesByteLength + call.object.sizeInBytes
               /\ call.object._id \in stats'._textureIdSet]_vars

\* C3 witness: two textures counted, the first registered again with
\* another size and not counted again.
C3_Witness ==
  /\ Len(log) = 3
  /\ log[1].op = "addTexture" /\ log[1].object._id = "id1" /\ log[1].object.sizeInBytes = 1
  /\ log[2].op = "addTexture" /\ log[2].object._id = "id2" /\ log[2].object.sizeInBytes = 1
  /\ log[3].op = "addTexture" /\ log[3].object._id = "id1" /\ log[3].object.sizeInBytes = 0
  /\ stats.texturesByteLength = 2
  /\ stats._textureIdSet = {"id1", "id2"}

\* ------------------------------------------------------ C7: call order
\* Every order in which the calls of a sequence can be made.
Orderings(calls) ==
  {[i \in 1..Len(calls) |-> calls[p[i]]] : p \in Permutations(1..Len(calls))}

Totals(this) == <<this.geometryByteLength, this.texturesByteLength>>

\* Every call of the sequence for one identity carries the same sizeInBytes.
SameSizePerIdentity(calls) ==
  \A i, j \in DOMAIN calls :
    Key(calls[i]) = Key(calls[j])
      => calls[i].object.sizeInBytes = calls[j].object.sizeInBytes

\* Every call of the sequence for one identity carries the same sizeInBytes
\* and the same hasCpuCopy.
SameCallPerIdentity(calls) ==
  \A i, j \in DOMAIN calls : Key(calls[i]) = Key(calls[j]) => calls[i] = calls[j]

\* C7 as stated: the totals after a generation's addBuffer/addTexture calls
\* are the same in whatever order the calls are made; they depend only on the
\* identities registered and their sizes (here each identity keeps one size,
\* so "its size at first registration" is the same in every order).
C7_OrderNeverMatters ==
  SameSizePerIdentity(log)
    => \A calls \in Orderings(log) :
         Totals(Replay(ModelExperimentalStatistics, calls)) = Totals(stats)

\* C7 amended: when every call for an identity carries the same sizeInBytes
\* and the same hasCpuCopy, the totals are the same in whatever order the
\* calls are made and however often each is repeated: they are the totals of
\* registering each distinct identity once, in any order.
C7_OrderMattersOnlyThroughFirstCall ==
  SameCallPerIdentity(log)
    => \A calls \in Orderings(log) \cup Orderings(FirstCalls(log, {})) :
         Totals(Replay(ModelExperimentalStatistics, calls)) = Totals(stats)

\* C7 witness: two buffers and a repeated registration, consistently
\* flagged and sized, with the totals of the two distinct buffers.
C7_Witness ==
  /\ Len(log) = 3
  /\ SameCallPerIdentity(log)
  /\ {Key(log[i]) : i \in DOMAIN log} = {<<"addBuffer", "id1">>, <<"addBuffer", "id2">>}
  /\ log[1] = log[3]
  /\ log[1].hasCpuCopy.value /\ ~log[2].hasCpuCopy.value
  /\ stats.geometryByteLength = 3

\* ------------------------------------------------- the whole object (Spec)
\* The sum, over the identities in `ids`, of the current byteLength of the
\* batch texture first registered with that identity.
RECURSIVE SumFirst(_, _, _)
SumFirst(ids, first, heap) ==
  IF ids = {} THEN 0
  ELSE LET id == CHOOSE x \in ids : TRUE
       IN heap[first[id]] + SumFirst(ids \ {id}, first, heap)

LiveSum == SumFirst(DOMAIN firstRegistered, firstRegistered, byteLength)

\* C4: in every reachable state batchTexturesByteLength evaluates to the sum
\* of the current byteLength of the batch textures registered (one per
\* identity) since the last clear(), and a read made in that state returned
\* exactly that sum: a size change is seen by the next read.
C4_ReadIsSumOfCurrentSizes ==
  /\ batchTexturesByteLength(stats, byteLength).value = LiveSum
  /\ last.step = "read" => last.value = LiveSum

\* C4 witness: a read returned 2 with two identities registered, each of
\* byteLength 1, while an unregistered batch texture has another size.
C4_Witness ==
  /\ last = [step |-> "read", value |-> 2]
  /\ firstRegistered = [id1 |-> "o1", id2 |-> "o2"]
  /\ byteLength = [o1 |-> 1, o1b |-> 0, o2 |-> 1]

\* Every reported quantity of `this` is 0 and nothing is registered in it.
Zeroed(this, heap) ==
  /\ this.pointsLength = 0
  /\ this.trianglesLength = 0
  /\ this.geometryByteLength = 0
  /\ this.texturesByteLength = 0
  /\ this.propertyTablesByteLength = 0
  /\ batchTexturesByteLength(this, heap).value = 0
  /\ this._bufferIdSet = {}
  /\ this._textureIdSet = {}
  /\ DOMAIN this._batchTextureIdMap._hash = {}
  /\ this._batchTextureIdMap._array = <<>>

\* C5: clear() can be called in every reachable state and does not throw,
\* and right after it every reported quantity is 0 and the two id sets and
\* the batch-texture map are empty.
C5_ClearZeroesEverything ==
  /\ ENABLED Clear
  /\ clear(stats).thrown = "none"
  /\ Zeroed(clear(stats).this, byteLength)
  /\ last.step = "clear" => Zeroed(stats, byteLength)

\* C5 witness: clear() has just returned while batch textures of positive
\* size exist on the heap.
C5_Witness ==
  /\ last.step = "clear"
  /\ byteLength = [o1 |-> 1, o1b |-> 1, o2 |-> 1]

\* C6: from the moment stats is cleared it is indistinguishable from the
\* instance constructed at that moment and given the same calls since: the
\* same fields, sets and map, and the same batchTexturesByteLength.
C6_ClearedIsLikeNew ==
  twin # NoInstance
    => /\ stats = twin
       /\ batchTexturesByteLength(stats, byteLength).value
            = batchTexturesByteLength(twin, byteLength).value

\* C6 witness: after a clear(), a buffer, a texture and two batch textures
\* are registered again and a read returned their size.
C6_Witness ==
  /\ twin # NoInstance
  /\ stats.geometryByteLength = 2
  /\ stats.texturesByteLength = 1
  /\ stats.pointsLength = 1
  /\ DOMAIN stats._batchTextureIdMap._hash = {"id1", "id2"}
  /\ last = [step |-> "read", value |-> 2]

\* The call threw InvalidArgument and left the instance as it was.
ThrewAndChangedNothing(result, this) ==
  /\ result.thrown = "InvalidArgument"
  /\ result.this = this

\* C8: in every reachable state, addBuffer with a missing or non-object
\* buffer or a non-boolean hasCpuCopy, and addTexture and addBatchTexture
\* with a missing or non-object argument, throw InvalidArgument and leave
\* every total, both id sets and the batch-texture map as they were; a step
\* that threw is recorded as that error.
C8_InvalidArgumentThrowsBeforeAnyChange ==
  /\ \A buffer \in ObjectArgs(Buffers(SceneIds)), hasCpuCopy \in FlagArgs :
       (typeof(buffer) # "object" \/ typeof(hasCpuCopy) # "boolean")
         => ThrewAndChangedNothing(addBuffer(stats, buffer, hasCpuCopy), stats)
  /\ \A texture \in {Undefined, NumberValue} :
       ThrewAndChangedNothing(addTexture(stats, texture), stats)
  /\ \A batchTexture \in {Undefined, NumberValue} :
       ThrewAndChangedNothing(addBatchTexture(stats, batchTexture), stats)
  /\ last.step = "thrown" => last.error = "InvalidArgument"

\* C8 witness: a call threw on an instance holding counted resources.
C8_Witness ==
  /\ last = [step |-> "thrown", error |-> "InvalidArgument"]
  /\ stats.geometryByteLength = 1
  /\ stats.texturesByteLength = 1
  /\ stats._bufferIdSet = {"id1"}
  /\ DOMAIN stats._batchTextureIdMap._hash = {"id1"}

\* C9: in every reachable state a read of batchTexturesByteLength leaves the
\* instance (all totals, both id sets, the map's keys and references) as it
\* was, and a read that directly follows a read returns the value that read
\* returned.
C9_ReadChangesNothing ==
  /\ batchTexturesByteLength(stats, byteLength).this = stats
  /\ last.step = "read"
       => batchTexturesByteLength(stats, byteLength).value = last.value

\* C9 witness: a read returned a positive sum from a populated instance.
C9_Witness ==
  /\ last = [step |-> "read", value |-> 1]
  /\ stats._batchTextureIdMap._array = <<"o2", "o1b">>
  /\ stats.geometryByteLength = 2
  /\ stats.propertyTablesByteLength = 1

\* The map holds exactly one entry per identity, the first registered.
RegistryKeepsFirst ==
  LET map == stats._batchTextureIdMap
  IN /\ map._hash = firstRegistered
     /\ Len(map._array) = Cardinality(DOMAIN map._hash)
     /\ {map._array[i] : i \in DOMAIN map._array} = {map._hash[k] : k \in DOMAIN map._hash}

\* The totals that are plain fields.
Scalars(this) ==
  <<this.pointsLength, this.trianglesLength, this.geometryByteLength,
    this.texturesByteLength, this.propertyTablesByteLength>>

\* C10: in every reachable state addBatchTexture changes no total and
\* changes nothing at all for an identity already in the map; the map keeps
\* one entry per identity, the batch texture first registered with it, and
\* what batchTexturesByteLength sums is the current size of the map's entries
\* whatever the sizes were at registration.
C10_FirstBatchTextureIsKept ==
  /\ RegistryKeepsFirst
  /\ \A batchTexture \in BatchTextures :
       LET result == addBatchTexture(stats, batchTexture)
           id == BatchTextureId(batchTexture.ref)
       IN /\ result.thrown = "none"
          /\ Scalars(result.this) = Scalars(stats)
          /\ AssociativeArray_contains(stats._batchTextureIdMap, id)
               => result.this = stats
          /\ ~AssociativeArray_contains(stats._batchTextureIdMap, id)
               => result.this._batchTextureIdMap._hash[id] = batchTexture.ref
  /\ \A heap \in [BatchTextureRefs -> Sizes] :
       (\A id \in DOMAIN firstRegistered :
          heap[firstRegistered[id]] = byteLength[firstRegistered[id]])
         => batchTexturesByteLength(stats, heap).value
              = batchTexturesByteLength(stats, byteLength).value

\* C10 witness: "o1b" was registered first for identity "id1"; the read
\* returned its size and that of "o2", not the size of "o1".
C10_Witness ==
  /\ stats._batchTextureIdMap._hash = [id1 |-> "o1b", id2 |-> "o2"]
  /\ byteLength = [o1 |-> 1, o1b |-> 0, o2 |-> 1]
  /\ last = [step |-> "read", value |-> 1]

\* ------------------------------------------------------------------ C11
\* The first call of the generation's log that registered `id` with `op`.
FirstRegistration(op, id) ==
  LET at == {i \in DOMAIN log : Key(log[i]) = <<op, id>>}
  IN log[CHOOSE i \in at : \A j \in at : i <= j]

\* What a registration is worth: the size it carried, twice for a buffer
\* registered with a CPU copy.
Worth(call) ==
  IF call.op = "addBuffer" /\ call.hasCpuCopy.value
  THEN call.object.sizeInBytes * 2
  ELSE call.object.sizeInBytes

RECURSIVE SumFirstRegistrations(_, _)
SumFirstRegistrations(op, ids) ==
  IF ids = {} THEN 0
  ELSE LET id == CHOOSE x \in ids : TRUE
       IN Worth(FirstRegistration(op, id)) + SumFirstRegistrations(op, ids \ {id})

LoggedIds(op) == {log[i].object._id : i \in {j \in DOMAIN log : log[j].op = op}}

\* C11: in every state reached through clear(), addBuffer and addTexture,
\* _bufferIdSet and _textureIdSet hold exactly the identities registered
\* since the last clear(), geometryByteLength is the sum over _bufferIdSet of
\* the size the identity's first registration carried times 2 if that
\* registration had a CPU copy (else 1), and texturesByteLength is the sum
\* over _textureIdSet of the size the first registration carried: later
\* calls with another size or flag, also after a first size of 0, add
\* nothing.
C11_TotalsAreSumsOfFirstRegistrations ==
  /\ stats._bufferIdSet = LoggedIds("addBuffer")
  /\ stats._textureIdSet = LoggedIds("addTexture")
  /\ stats.geometryByteLength = SumFirstRegistrations("addBuffer", stats._bufferIdSet)
  /\ stats.texturesByteLength = SumFirstRegistrations("addTexture", stats._textureIdSet)

\* C11 witness: in a generation after a clear(), buffer id1 was first
\* registered with size 0 and then again with size 1 and a CPU copy, buffer
\* id2 with size 1 and a CPU copy; the total is 2, from id2 alone.
C11_Witness ==
  /\ twin # NoInstance
  /\ Len(log) = 3
  /\ log[1].op = "addBuffer" /\ log[1].object._id = "id1" /\ log[1].object.sizeInBytes = 0
  /\ log[2].op = "addBuffer" /\ log[2].object._id = "id1" /\ log[2].object.sizeInBytes = 1
  /\ log[2].hasCpuCopy.value
  /\ log[3].op = "addBuffer" /\ log[3].object._id = "id2" /\ log[3].object.sizeInBytes = 1
  /\ log[3].hasCpuCopy.value
  /\ stats.geometryByteLength = 2
  /\ stats._bufferIdSet = {"id1", "id2"}

\* ------------------------------------------------------------------ C12
\* The instance after the addBatchTexture calls of a sequence, in order.
RECURSIVE RegisterInOrder(_, _)
RegisterInOrder(this, batchTextures) ==
  IF batchTextures = <<>> THEN this
  ELSE RegisterInOrder(addBatchTexture(this, Head(batchTextures)).this, Tail(batchTextures))

\* What a read returns, with the sizes of `heap`, after the calls of a
\* sequence made on a new instance.
ReadAfter(batchTextures, heap) ==
  batchTexturesByteLength(RegisterInOrder(ModelExperimentalStatistics, batchTextures), heap).value

\* No two different batch textures of the sequence share an _id.
OneObjectPerIdentity(batchTextures) ==
  \A i, j \in DOMAIN batchTextures :
    BatchTextureId(batchTextures[i].ref) = BatchTextureId(batchTextures[j].ref)
      => batchTextures[i] = batchTextures[j]

\* C12 as stated: whatever order the generation's addBatchTexture calls are
\* made in, a read with the current sizes returns what the instance returns.
C12_RegistrationOrderNeverMatters ==
  \A ordering \in Orderings(log) :
    ReadAfter(ordering, byteLength) = batchTexturesByteLength(stats, byteLength).value

\* C12: when no two different batch textures registered in the generation
\* share an _id, a read with the current sizes returns the same total
\* whatever order the generation's addBatchTexture calls are made in; the
\* total follows the sizes current at the read.
C12_OrderMattersOnlyThroughSharedIdentity ==
  OneObjectPerIdentity(log) =>
    \A ordering \in Orderings(log) :
      ReadAfter(ordering, byteLength) = batchTexturesByteLength(stats, byteLength).value

\* C12 witness: o1, o2 and o1 again were registered, the sizes are 1 and 0,
\* and a read returned 1.
C12_Witness ==
  /\ Len(log) = 3
  /\ log[1].ref = "o1" /\ log[2].ref = "o2" /\ log[3].ref = "o1"
  /\ byteLength["o1"] = 1 /\ byteLength["o2"] = 0
  /\ last = [step |-> "read", value |-> 1]

\* ------------------------------------------------------------------ C13
\* The batch textures the map holds by this generation's registrations.
Kept == {firstRegistered[id] : id \in DOMAIN firstRegistered}

\* C13: after a clear() and until the next addBatchTexture,
\* batchTexturesByteLength is 0 whatever the sizes of the batch textures
\* are, and a read returned 0; and in every state, changing the size of a
\* batch texture that the last clear() dropped and that is not kept again
\* by a registration of this generation leaves batchTexturesByteLength as
\* it is.
C13_ClearDropsBatchTextures ==
  /\ (twin # NoInstance /\ log = <<>>) =>
       /\ \A heap \in [BatchTextureRefs -> Sizes] :
            batchTexturesByteLength(stats, heap).value = 0
       /\ last.step = "read" => last.value = 0
  /\ \A r \in dropped \ Kept, n \in Sizes :
       batchTexturesByteLength(stats, [byteLength EXCEPT ![r] = n]).value
         = batchTexturesByteLength(stats, byteLength).value

\* C13 witness: the last clear() dropped o1 and o2, o2 alone was registered
\* again, both have size 1 and a read returned 1.
C13_Witness ==
  /\ dropped = {"o1", "o2"}
  /\ Len(log) = 1 /\ log[1].ref = "o2"
  /\ byteLength["o1"] = 1 /\ byteLength["o2"] = 1
  /\ last = [step |-> "read", value |-> 1]

\* ------------------------------------------------------------------ C14
\* C14: in every reachable state and for every buffer, flag, texture and
\* batch texture, addBuffer leaves every field but geometryByteLength and
\* _bufferIdSet as it is and counts the buffer exactly when its _id is not
\* in _bufferIdSet, addTexture leaves every field but texturesByteLength
\* and _textureIdSet as it is and counts the texture exactly when its _id is
\* not in _textureIdSet, and addBatchTexture leaves every field but
\* _batchTextureIdMap as it is: pointsLength, trianglesLength and
\* propertyTablesByteLength are never written, and an _id in one set does
\* not stand for the same _id in the other.
C14_RegistrationsWriteOnlyTheirOwnFields ==
  /\ \A buffer \in Buffers(Ids), hasCpuCopy \in Booleans :
       LET after == addBuffer(stats, buffer, hasCpuCopy).this
       IN /\ [after EXCEPT !.geometryByteLength = stats.geometryByteLength,
                           !._bufferIdSet = stats._bufferIdSet] = stats
          /\ after.geometryByteLength = stats.geometryByteLength +
               (IF buffer._id \in stats._bufferIdSet THEN 0
                ELSE IF hasCpuCopy.value THEN buffer.sizeInBytes * 2
                ELSE buffer.sizeInBytes)
  /\ \A texture \in Textures(Ids) :
       LET after == addTexture(stats, texture).this
       IN /\ [after EXCEPT !.texturesByteLength = stats.texturesByteLength,
                           !._textureIdSet = stats._textureIdSet] = stats
          /\ after.texturesByteLength = stats.texturesByteLength +
               (IF texture._id \in stats._textureIdSet THEN 0 ELSE texture.sizeInBytes)
  /\ \A batchTexture \in BatchTextures :
       LET after == addBatchTexture(stats, batchTexture).this
       IN [after EXCEPT !._batchTextureIdMap = stats._batchTextureIdMap] = stats

\* C14 witness: a buffer and a texture with the same _id were both
\* registered and counted, each in its own total, a batch texture is
\* registered, and the point count set by the pipeline is still there after
\* the last registration.
C14_Witness ==
  /\ stats._bufferIdSet = {"id1"}
  /\ stats._textureIdSet = {"id1"}
  /\ stats.geometryByteLength = 2
  /\ stats.texturesByteLength = 1
  /\ stats.pointsLength = 1
  /\ DOMAIN stats._batchTextureIdMap._hash = {"id2"}
  /\ last = [step |-> "call"]

\* ------------------------------------------------------------------ C15
\* Between two clear() calls nothing registered is lost: the byte totals do
\* not decrease, the identity sets keep their members and the map keeps its
\* entries.
GrowsOnly ==
  /\ stats'.geometryByteLength >= stats.geometryByteLength
  /\ stats'.texturesByteLength >= stats.texturesByteLength
  /\ stats._bufferIdSet \subseteq stats'._bufferIdSet
  /\ stats._textureIdSet \subseteq stats'._textureIdSet
  /\ \A id \in DOMAIN stats._batchTextureIdMap._hash :
       /\ id \in DOMAIN stats'._batchTextureIdMap._hash
       /\ stats'._batchTextureIdMap._hash[id] = stats._batchTextureIdMap._hash[id]

\* C15: with sizes that are not negative, geometryByteLength and
\* texturesByteLength are never negative, and every step that is not a
\* clear() leaves both totals at least as large as they were and every
\* member of _bufferIdSet, _textureIdSet and _batchTextureIdMap in place.
C15_TotalsAndSetsOnlyGrowBetweenClears ==
  /\ [](stats.geometryByteLength >= 0 /\ stats.texturesByteLength >= 0)
  /\ [][last'.step # "clear" => GrowsOnly]_vars

\* C15 witness: in a generation after a clear(), two buffers (one with a
\* CPU copy) add up to 3 bytes and two textures to 2, and the map holds two
\* batch textures.
C15_Witness ==
  /\ twin # NoInstance
  /\ stats._bufferIdSet = {"id1", "id2"}
  /\ stats._textureIdSet = {"id1", "id2"}
  /\ stats.geometryByteLength = 3
  /\ stats.texturesByteLength = 2
  /\ DOMAIN stats._batchTextureIdMap._hash = {"id1", "id2"}
  /\ last = [step |-> "call"]

====
